---- MODULE Spec2Model ----
(***************************************************************************)
(* Model of eda_cli/api.py: the request-id middleware, the telemetry       *)
(* emitter log_request and the three scoring entry points /quality,        *)
(* /quality-from-csv and /quality-flags-from-csv.                          *)
(*                                                                         *)
(* Conventions.                                                            *)
(*  - Scores and shares are floats in the source; here they are integers   *)
(*    in thousandths (0.7 is 700, 1.0 is 1000).                            *)
(*  - A Python value that may be None is a sequence: <<>> for None and     *)
(*    <<v>> for the value v.                                               *)
(*  - The values of the collaborator's flag mapping are tagged             *)
(*    (bool / num / str), as Python's isinstance tells them apart.         *)
(*  - uuid.uuid4 is modelled as collision free: the identifier issued for  *)
(*    one request differs from those issued for all others.                *)
(***************************************************************************)
EXTENDS Integers, Sequences, FiniteSets, TLC

(* ------------------------------ bounds -------------------------------- *)

\* Number of requests served in one behaviour of the concurrent specification.
NumRequests == 2

\* Largest latency (in ms) a handler can measure between its two perf_counter reads.
MaxLatency == 1

(* ------------------------- program constants -------------------------- *)

FullScore == 1000          \* score = 1.0
MinRows == 1000            \* req.n_rows < 1000
MaxCols == 100             \* req.n_cols > 100
FewRowsPenalty == 200      \* score -= 0.2
ManyColsPenalty == 100     \* score -= 0.1
NoNumericPenalty == 100    \* score -= 0.1
NoCategoricalPenalty == 50 \* score -= 0.05
OkThreshold == 700         \* score >= 0.7
MissingFlagThreshold == 500 \* req.max_missing_share > 0.5
BadRequest == 400          \* HTTPException(status_code=400, ...)

Reqs == 1..NumRequests
Latencies == 0..MaxLatency
\* the latencies of the concurrent specification: the least and the largest
SmallLatencies == {0, MaxLatency}

\* The execution scopes (server tasks) in which dispatch can run.  One scope
\* runs one request at a time; different scopes run concurrently.
Scopes == {"scope-A", "scope-B"}

\* ContextVar("request_id", default="unknown"): the default, and the marker of
\* a context in which the variable was never set (Token.MISSING).
Unknown == "unknown"
Missing == "<missing>"

ENDPOINT_QUALITY == "/quality"
ENDPOINT_CSV == "/quality-from-csv"
ENDPOINT_FLAGS == "/quality-flags-from-csv"

\* The message and detail strings of the source are in Russian; these are their
\* English renderings, one distinct string per source string.
MSG_QUALITY_OK == "quality: data sufficient, the model can be trained"
MSG_QUALITY_BAD == "quality: data quality insufficient, rework needed"
MSG_CSV_OK == "csv: good enough for training"
MSG_CSV_BAD == "csv: rework needed before training"

DETAIL_CONTENT_TYPE == "a CSV file is expected (content-type text/csv)"
DETAIL_EMPTY == "the CSV file holds no data (empty DataFrame)"
DETAIL_PARSE == "could not read the CSV: {exc}"

Max(a, b) == IF a >= b THEN a ELSE b
Min(a, b) == IF a <= b THEN a ELSE b

(* --------------------------- tagged values ---------------------------- *)

BoolVal(b) == [tag |-> "bool", b |-> b, n |-> 0]
NumVal(n) == [tag |-> "num", b |-> FALSE, n |-> n]
StrVal == [tag |-> "str", b |-> FALSE, n |-> 0]

\* isinstance(value, bool); the faulty variant also accepts numbers
IsInstanceBoolLoose(value) == value.tag # "str"
IsInstanceBool(value) == value.tag = "bool"

\* bool(value)
Bool(value) ==
  CASE value.tag = "bool" -> value.b
    [] value.tag = "num" -> value.n # 0
    [] OTHER -> TRUE

\* float(value) of a bool or a number, in thousandths
Float(value) ==
  CASE value.tag = "bool" -> (IF value.b THEN FullScore ELSE 0)
    [] OTHER -> value.n

(* ------------------------- scoring (/quality) ------------------------- *)

\* score = max(0.0, min(1.0, score)); the faulty variant has no lower bound
ClampNoFloor(score) == Min(FullScore, score)
Clamp(score) == Max(0, Min(FullScore, score))

\* ok_for_model = score >= 0.7; the faulty variant excludes 0.7 itself
OkForModelStrict(score) == score > OkThreshold
OkForModel(score) == score >= OkThreshold

\* faulty variant: the missing share is added instead of subtracted
RawScoreAddsMissing(f) ==
  FullScore + f.max_missing_share
    - (IF f.n_rows < MinRows THEN FewRowsPenalty ELSE 0)
    - (IF f.n_cols > MaxCols THEN ManyColsPenalty ELSE 0)
    - (IF f.numeric_cols = 0 /\ f.categorical_cols > 0 THEN NoNumericPenalty ELSE 0)
    - (IF f.categorical_cols = 0 /\ f.numeric_cols > 0 THEN NoCategoricalPenalty ELSE 0)

\* the score of /quality before it is clamped
RawScore(f) ==
  FullScore - f.max_missing_share
    - (IF f.n_rows < MinRows THEN FewRowsPenalty ELSE 0)
    - (IF f.n_cols > MaxCols THEN ManyColsPenalty ELSE 0)
    - (IF f.numeric_cols = 0 /\ f.categorical_cols > 0 THEN NoNumericPenalty ELSE 0)
    - (IF f.categorical_cols = 0 /\ f.numeric_cols > 0 THEN NoCategoricalPenalty ELSE 0)

QualityScore(f) == Clamp(RawScore(f))

QualityMessage(ok) == IF ok THEN MSG_QUALITY_OK ELSE MSG_QUALITY_BAD

QualityFlags(f) ==
  [too_few_rows |-> f.n_rows < MinRows,
   too_many_columns |-> f.n_cols > MaxCols,
   too_many_missing |-> f.max_missing_share > MissingFlagThreshold,
   no_numeric_columns |-> f.numeric_cols = 0,
   no_categorical_columns |-> f.categorical_cols = 0]

(* ------------------------- ingestion helpers -------------------------- *)

AllowedContentTypes == {"text/csv", "application/vnd.ms-excel", "application/octet-stream"}

\* file.content_type not in (...) is the negation of this; the faulty variant
\* lets every content type through
ContentTypeAllowedAny(content_type) == TRUE
ContentTypeAllowed(content_type) == content_type \in AllowedContentTypes

\* pd.read_csv(file.file): raises on bytes it cannot parse (among them a file
\* with no columns), otherwise gives a DataFrame of the file's shape.
read_csv(content) ==
  IF content.kind = "malformed"
  THEN [kind |-> "raise"]
  ELSE [kind |-> "df", rows |-> content.rows, cols |-> content.cols]

\* df.empty: any axis of length 0; the faulty variant wants both axes empty
DfEmptyNoAxes(df) == df.rows = 0 /\ df.cols = 0
DfEmpty(df) == df.rows = 0 \/ df.cols = 0

\* {key: bool(value) for key, value in flags_all.items() if isinstance(value, bool)}
BoolFlags(flags_all) ==
  [key \in {k \in DOMAIN flags_all : IsInstanceBool(flags_all[k])} |-> Bool(flags_all[key])]

\* float(flags_all.get("quality_score", 0.0))
SuppliedScore(flags_all) ==
  IF "quality_score" \in DOMAIN flags_all THEN Float(flags_all["quality_score"]) ELSE 0

CsvMessage(ok) == IF ok THEN MSG_CSV_OK ELSE MSG_CSV_BAD

\* getattr(summary, "n_rows") / getattr(summary, "n_cols") both succeed
HasDims(summary) == summary.n_rows # <<>> /\ summary.n_cols # <<>>

\* try: n_rows, n_cols from summary; except AttributeError: from df.shape
DatasetShape(summary, df) ==
  IF HasDims(summary)
  THEN [n_rows |-> summary.n_rows[1], n_cols |-> summary.n_cols[1]]
  ELSE [n_rows |-> df.rows, n_cols |-> df.cols]

(* ------------------------------ inputs -------------------------------- *)

Features(n_rows, n_cols, max_missing_share, numeric_cols, categorical_cols) ==
  [n_rows |-> n_rows, n_cols |-> n_cols, max_missing_share |-> max_missing_share,
   numeric_cols |-> numeric_cols, categorical_cols |-> categorical_cols]

Table(rows, cols) == [kind |-> "table", rows |-> rows, cols |-> cols]
Malformed == [kind |-> "malformed", rows |-> 0, cols |-> 0]

QualityRequestOf(f) == [endpoint |-> ENDPOINT_QUALITY, features |-> f]
UploadOf(endpoint, content_type, content) ==
  [endpoint |-> endpoint, content_type |-> content_type, content |-> content]

Summary(n_rows, n_cols) == [n_rows |-> n_rows, n_cols |-> n_cols]

\* What the analysis collaborator does on one table: it raises, or it returns a
\* summary and a flag mapping.
CollabRaises == [raises |-> TRUE, summary |-> Summary(<<>>, <<>>), flags_all |-> << >>]
CollabReturns(summary, flags_all) ==
  [raises |-> FALSE, summary |-> summary, flags_all |-> flags_all]
NoCollab == [raises |-> FALSE, summary |-> Summary(<<>>, <<>>), flags_all |-> << >>]

\* QualityRequest: n_rows, n_cols, numeric_cols, categorical_cols >= 0 and
\* 0 <= max_missing_share <= 1
ValidFeatures(f) ==
  /\ f.n_rows >= 0 /\ f.n_cols >= 0 /\ f.numeric_cols >= 0 /\ f.categorical_cols >= 0
  /\ f.max_missing_share >= 0 /\ f.max_missing_share <= FullScore

\* --- the inputs of the concurrent specification: one per path of the code
SmallFeatureSets ==
  { Features(500, 10, 0, 5, 5), Features(2000, 5, 900, 3, 2) }

SmallUploads(endpoint) ==
  { UploadOf(endpoint, "application/json", Table(3, 2)),
    UploadOf(endpoint, "text/csv", Malformed),
    UploadOf(endpoint, "text/csv", Table(0, 2)),
    UploadOf(endpoint, "text/csv", Table(3, 2)) }

SmallRequests ==
  { QualityRequestOf(f) : f \in SmallFeatureSets }
    \cup SmallUploads(ENDPOINT_CSV) \cup SmallUploads(ENDPOINT_FLAGS)

SmallFlagMaps ==
  { [quality_score |-> NumVal(850), too_few_rows |-> BoolVal(FALSE)],
    [too_many_missing |-> BoolVal(TRUE), max_missing_share |-> NumVal(600)] }

SmallCollabs ==
  {CollabRaises}
    \cup { CollabReturns(s, fl) :
             s \in {Summary(<<4>>, <<5>>), Summary(<<>>, <<>>)}, fl \in SmallFlagMaps }

\* --- the inputs of the single-request specification: the value space
MissingShares == {0, 50, 99, 100, 101, 299, 300, 301, 500, 501, 900, 1000}

AllFeatureSets ==
  { Features(r, c, m, n, k) :
      r \in {0, 999, 1000}, c \in {0, 100, 101}, m \in MissingShares,
      n \in {0, 3}, k \in {0, 2} }

ContentTypes == AllowedContentTypes \cup {"application/json", "text/plain", ""}
Contents == {Malformed, Table(0, 1), Table(0, 3), Table(2, 1), Table(3, 2)}

AllUploads(endpoint) ==
  { UploadOf(endpoint, ct, c) : ct \in ContentTypes, c \in Contents }

AllRequests ==
  { QualityRequestOf(f) : f \in AllFeatureSets }
    \cup AllUploads(ENDPOINT_CSV) \cup AllUploads(ENDPOINT_FLAGS)

SuppliedScores == {-200, 0, 699, 700, 701, 1000, 1500}

\* flag mappings with every mix of boolean and non-boolean entries; the
\* quality_score entry is a number or is missing.
AllFlagMaps ==
  { [too_few_rows |-> a, has_constant_columns |-> b, max_missing_share |-> NumVal(250)] :
      a \in {BoolVal(TRUE), BoolVal(FALSE)},
      b \in {BoolVal(TRUE), NumVal(1), StrVal} }
  \cup
  { [quality_score |-> NumVal(q), too_few_rows |-> a, note |-> b] :
      q \in SuppliedScores, a \in {BoolVal(TRUE), BoolVal(FALSE), NumVal(0)},
      b \in {StrVal, BoolVal(FALSE)} }
  \cup { [quality_score |-> NumVal(q)] : q \in SuppliedScores }

AllSummaries ==
  { Summary(r, c) : r \in {<<>>, <<2>>, <<4>>}, c \in {<<>>, <<1>>, <<5>>} }

AllCollabs ==
  {CollabRaises} \cup { CollabReturns(s, fl) : s \in AllSummaries, fl \in AllFlagMaps }

(* ------------------------------- state -------------------------------- *)

VARIABLES
  pc,        \* pc[r]: "idle", "handler" (dispatch awaits call_next), "returned", "done"
  req,       \* req[r]: the request
  scope,     \* scope[r]: the execution scope dispatch runs in, while it runs
  rid,       \* rid[r]: request.state.request_id
  token,     \* token[r]: the old value kept by the Token of request_id_var.set
  scopeCtx,  \* scopeCtx[s]: request_id_var in the context of scope s
  taskCtx,   \* taskCtx[r]: request_id_var in the context the handler of r runs in
  resp,      \* resp[r]: what call_next gave dispatch: a response or an exception
  emitted,   \* emitted[r]: the records api_logger handled on behalf of r, in order
  calls,     \* calls[r]: the parser and collaborator calls made for r, in order
  collab     \* collab[r]: what the collaborator did for r, if it was called

vars == <<pc, req, scope, rid, token, scopeCtx, taskCtx, resp, emitted, calls, collab>>

NoRequest == [endpoint |-> "none"]
NoBody == [nobody |-> TRUE]
NoResponse == [kind |-> "none", status_code |-> 0, detail |-> "", body |-> NoBody]

Ok200(body) == [kind |-> "ok", status_code |-> 200, detail |-> "", body |-> body]
\* raise HTTPException(status_code, detail): FastAPI turns it into a response
HTTPException(status_code, detail) ==
  [kind |-> "http_error", status_code |-> status_code, detail |-> detail, body |-> NoBody]
\* any other exception leaves the handler and propagates through call_next
Raised(exc) == [kind |-> "raised", status_code |-> 500, detail |-> exc, body |-> NoBody]

Result(response, logs, called) == [resp |-> response, logs |-> logs, calls |-> called]

Init ==
  /\ pc = [r \in Reqs |-> "idle"]
  /\ req = [r \in Reqs |-> NoRequest]
  /\ scope = [r \in Reqs |-> "none"]
  /\ rid = [r \in Reqs |-> Missing]
  /\ token = [r \in Reqs |-> Missing]
  /\ scopeCtx = [s \in Scopes |-> Missing]
  /\ taskCtx = [r \in Reqs |-> Missing]
  /\ resp = [r \in Reqs |-> NoResponse]
  /\ emitted = [r \in Reqs |-> << >>]
  /\ calls = [r \in Reqs |-> << >>]
  /\ collab = [r \in Reqs |-> NoCollab]

(* ----------------------- correlation context -------------------------- *)

\* str(uuid.uuid4()) in the dispatch of request r: an identifier no other
\* request gets.
Uuid4(r) == "uuid-" \o ToString(r)

InFlight(r) == pc[r] \in {"handler", "returned"}

\* request_id_var.get("unknown") on a context holding v
Get(v) == IF v = Missing THEN Unknown ELSE v

\* The value of request_id_var in the context the handler of r runs in:
\* call_next starts the handler in a copy of dispatch's context.  In the
\* faulty variant the handler runs in a context that was not copied.
HandlerVarValueNotCopied(r) == Missing
HandlerVarValue(r) == taskCtx[r]

\* request_id_var.reset(token) in the finally clause; the faulty variant
\* resets only when call_next returned.
ResetValueUnlessRaised(r) ==
  IF resp[r].kind = "raised" THEN scopeCtx[scope[r]] ELSE token[r]
ResetValue(r) == token[r]

(* -------------------------- telemetry emitter ------------------------- *)

\* JSONFormatter.format: the record's fields, the None ones dropped.
\* (The timestamp is left out: no claim reads it.)
JSONFormat(endpoint, status, latency_ms, ok_for_model, n_rows, n_cols, request_id) ==
  LET present == {"endpoint", "status", "latency_ms", "request_id"}
                   \cup (IF ok_for_model # <<>> THEN {"ok_for_model"} ELSE {})
                   \cup (IF n_rows # <<>> THEN {"n_rows"} ELSE {})
                   \cup (IF n_cols # <<>> THEN {"n_cols"} ELSE {})
  IN [k \in present |->
        CASE k = "endpoint" -> endpoint
          [] k = "status" -> status
          [] k = "latency_ms" -> latency_ms
          [] k = "request_id" -> request_id
          [] k = "ok_for_model" -> ok_for_model[1]
          [] k = "n_rows" -> n_rows[1]
          [] k = "n_cols" -> n_cols[1]]

\* log_request called by the handler of r: the record api_logger.handle writes
log_request(r, endpoint, status, latency_ms, ok_for_model, n_rows, n_cols) ==
  JSONFormat(endpoint, status, latency_ms, ok_for_model, n_rows, n_cols,
             Get(HandlerVarValue(r)))

(* ------------------------------ handlers ------------------------------ *)

\* quality(req): score, verdict, flags, one log_request, the response
quality(r, latency_ms) ==
  LET f == req[r].features
      score == QualityScore(f)
      ok_for_model == OkForModel(score)
  IN Result(
       Ok200([ok_for_model |-> ok_for_model,
              quality_score |-> score,
              message |-> QualityMessage(ok_for_model),
              latency_ms |-> latency_ms,
              flags |-> QualityFlags(f),
              dataset_shape |-> [n_rows |-> f.n_rows, n_cols |-> f.n_cols]]),
       << log_request(r, ENDPOINT_QUALITY, "success", latency_ms,
                      <<ok_for_model>>, <<f.n_rows>>, <<f.n_cols>>) >>,
       << >>)

\* The try block both CSV handlers open with: the content-type check, the
\* parse and the emptiness check.  It ends the request (failed) or gives df.
Ingest(r, endpoint, latency_ms) ==
  LET error_log == log_request(r, endpoint, "error", latency_ms, <<>>, <<>>, <<>>)
      df == read_csv(req[r].content)
  IN IF ~ContentTypeAllowed(req[r].content_type)
     THEN [failed |-> TRUE,
           result |-> Result(HTTPException(BadRequest, DETAIL_CONTENT_TYPE),
                             <<error_log>>, << >>)]
     ELSE IF df.kind = "raise"
     THEN [failed |-> TRUE,
           result |-> Result(HTTPException(BadRequest, DETAIL_PARSE),
                             <<error_log>>, <<"read_csv">>)]
     ELSE IF DfEmpty(df)
     THEN [failed |-> TRUE,
           result |-> Result(HTTPException(BadRequest, DETAIL_EMPTY),
                             <<error_log>>, <<"read_csv">>)]
     ELSE [failed |-> FALSE, df |-> df]

\* summarize_dataset(df); missing_table(df); compute_quality_flags(...): the
\* calls are outside every try block, so an exception of any of them leaves
\* the handler as it is.
CollaboratorCalls ==
  <<"read_csv", "summarize_dataset", "missing_table", "compute_quality_flags">>

quality_from_csv(r, coll, latency_ms) ==
  LET ing == Ingest(r, ENDPOINT_CSV, latency_ms) IN
  IF ing.failed THEN ing.result
  ELSE IF coll.raises THEN Result(Raised("collaborator"), << >>, CollaboratorCalls)
  ELSE
    LET score == Clamp(SuppliedScore(coll.flags_all))
        ok_for_model == OkForModel(score)
        shape == DatasetShape(coll.summary, ing.df)
    IN Result(
         Ok200([ok_for_model |-> ok_for_model,
                quality_score |-> score,
                message |-> CsvMessage(ok_for_model),
                latency_ms |-> latency_ms,
                flags |-> BoolFlags(coll.flags_all),
                dataset_shape |-> shape]),
         << log_request(r, ENDPOINT_CSV, "success", latency_ms,
                        <<ok_for_model>>, <<shape.n_rows>>, <<shape.n_cols>>) >>,
         CollaboratorCalls)

quality_flags_from_csv(r, coll, latency_ms) ==
  LET ing == Ingest(r, ENDPOINT_FLAGS, latency_ms) IN
  IF ing.failed THEN ing.result
  ELSE IF coll.raises THEN Result(Raised("collaborator"), << >>, CollaboratorCalls)
  \* n_rows=summary.n_rows, n_cols=summary.n_cols: plain attribute reads
  ELSE IF ~HasDims(coll.summary)
  THEN Result(Raised("AttributeError"), << >>, CollaboratorCalls)
  ELSE Result(
         Ok200([flags |-> BoolFlags(coll.flags_all)]),
         << log_request(r, ENDPOINT_FLAGS, "success", latency_ms,
                        <<>>, coll.summary.n_rows, coll.summary.n_cols) >>,
         CollaboratorCalls)

(* ------------------------------ actions ------------------------------- *)

\* RequestIDMiddleware.dispatch up to "await call_next(request)"
Dispatch(r, requests) ==
  /\ pc[r] = "idle"
  /\ \E request \in requests, s \in Scopes :
       /\ \A o \in Reqs : InFlight(o) => scope[o] # s
       /\ LET request_id == Uuid4(r) IN
            /\ rid' = [rid EXCEPT ![r] = request_id]
            /\ token' = [token EXCEPT ![r] = scopeCtx[s]]
            /\ scopeCtx' = [scopeCtx EXCEPT ![s] = request_id]
            /\ taskCtx' = [taskCtx EXCEPT ![r] = request_id]
       /\ req' = [req EXCEPT ![r] = request]
       /\ scope' = [scope EXCEPT ![r] = s]
  /\ pc' = [pc EXCEPT ![r] = "handler"]
  /\ UNCHANGED <<resp, emitted, calls, collab>>

\* The handler has run: its response or exception, the records it logged and
\* the calls it made.
Return(r, out, coll) ==
  /\ resp' = [resp EXCEPT ![r] = out.resp]
  /\ emitted' = [emitted EXCEPT ![r] = @ \o out.logs]
  /\ calls' = [calls EXCEPT ![r] = out.calls]
  /\ collab' = [collab EXCEPT ![r] = IF Len(out.calls) > 1 THEN coll ELSE NoCollab]
  /\ pc' = [pc EXCEPT ![r] = "returned"]
  /\ UNCHANGED <<req, scope, rid, token, scopeCtx, taskCtx>>

Quality(r, latencies) ==
  /\ pc[r] = "handler"
  /\ req[r].endpoint = ENDPOINT_QUALITY
  /\ \E latency_ms \in latencies : Return(r, quality(r, latency_ms), NoCollab)

QualityFromCsv(r, collabs, latencies) ==
  /\ pc[r] = "handler"
  /\ req[r].endpoint = ENDPOINT_CSV
  /\ \E latency_ms \in latencies, coll \in collabs :
       Return(r, quality_from_csv(r, coll, latency_ms), coll)

QualityFlagsFromCsv(r, collabs, latencies) ==
  /\ pc[r] = "handler"
  /\ req[r].endpoint = ENDPOINT_FLAGS
  /\ \E latency_ms \in latencies, coll \in collabs :
       Return(r, quality_flags_from_csv(r, coll, latency_ms), coll)

\* dispatch after call_next: the finally clause, then the response is
\* returned or the exception propagates
DispatchEnd(r) ==
  /\ pc[r] = "returned"
  /\ scopeCtx' = [scopeCtx EXCEPT ![scope[r]] = ResetValue(r)]
  /\ scope' = [scope EXCEPT ![r] = "none"]
  /\ pc' = [pc EXCEPT ![r] = "done"]
  /\ UNCHANGED <<req, rid, token, taskCtx, resp, emitted, calls, collab>>

\* NumRequests requests, served concurrently, one input per path of the code
Next ==
  \E r \in Reqs :
    \/ Dispatch(r, SmallRequests)
    \/ Quality(r, SmallLatencies)
    \/ QualityFromCsv(r, SmallCollabs, SmallLatencies)
    \/ QualityFlagsFromCsv(r, SmallCollabs, SmallLatencies)
    \/ DispatchEnd(r)

Spec == Init /\ [][Next]_vars

\* one request, its inputs drawn from the whole value space
NextSingle ==
  \/ Dispatch(1, AllRequests)
  \/ Quality(1, Latencies)
  \/ QualityFromCsv(1, AllCollabs, Latencies)
  \/ QualityFlagsFromCsv(1, AllCollabs, Latencies)
  \/ DispatchEnd(1)

SpecSingle == Init /\ [][NextSingle]_vars

(* ------------------------------- claims ------------------------------- *)

Returned(r) == pc[r] \in {"returned", "done"}
IsCsvEndpoint(r) == req[r].endpoint \in {ENDPOINT_CSV, ENDPOINT_FLAGS}
IsScoringEndpoint(r) == req[r].endpoint \in {ENDPOINT_QUALITY, ENDPOINT_CSV}

\* C1: every request that has returned or propagated its failure, on any of
\* the three entry points, has emitted exactly one telemetry record, with
\* status "success" if it succeeded and "error" if it failed (a failure raised
\* by the analysis collaborator included).
C1_OneRecordOnEveryPath ==
  \A r \in Reqs :
    Returned(r) =>
      /\ Len(emitted[r]) = 1
      /\ emitted[r][1].status = (IF resp[r].kind = "ok" THEN "success" ELSE "error")

\* C2: under any interleaving of the requests, every telemetry record carries
\* the request_id dispatch bound for the request that emitted it, next to that
\* request's endpoint and latency; a running handler reads its own request's
\* id through request_id_var; records of distinct requests carry distinct ids.
C2_RecordsCarryOwnRequestId ==
  /\ \A r \in Reqs :
       /\ pc[r] = "handler" => Get(HandlerVarValue(r)) = rid[r]
       /\ \A i \in 1..Len(emitted[r]) :
            /\ emitted[r][i].request_id = rid[r]
            /\ emitted[r][i].endpoint = req[r].endpoint
            /\ (resp[r].kind = "ok" /\ IsScoringEndpoint(r))
                 => emitted[r][i].latency_ms = resp[r].body.latency_ms
  /\ \A r1, r2 \in Reqs :
       r1 # r2 =>
         \A i \in 1..Len(emitted[r1]), j \in 1..Len(emitted[r2]) :
           emitted[r1][i].request_id # emitted[r2][j].request_id

\* two requests in flight at once, in different scopes, each with its record
\* emitted, with different latencies
C2_Witness ==
  \E r1, r2 \in Reqs :
    /\ r1 # r2
    /\ pc[r1] = "returned" /\ pc[r2] = "returned"
    /\ scope[r1] # scope[r2]
    /\ Len(emitted[r1]) = 1 /\ Len(emitted[r2]) = 1
    /\ emitted[r1][1].latency_ms # emitted[r2][1].latency_ms
    /\ emitted[r1][1].request_id = rid[r1]
    /\ emitted[r2][1].request_id = rid[r2]

\* C3: the binding of request_id_var made by dispatch is detached when the
\* request completes, whether the handler returned or raised: a scope with no
\* request in flight reads "unknown" again, and the value a request found
\* before binding (the one it restores) is never a finished request's id.
C3_BindingDetached ==
  /\ \A s \in Scopes :
       (\A r \in Reqs : InFlight(r) => scope[r] # s) => Get(scopeCtx[s]) = Unknown
  /\ \A r \in Reqs :
       InFlight(r) => /\ token[r] = Missing
                      /\ scopeCtx[scope[r]] = rid[r]

\* a request whose handler raised has completed, a later request has been
\* bound after it, and every idle scope is back to the unset variable
C3_Witness ==
  \E r1, r2 \in Reqs :
    /\ pc[r1] = "done" /\ resp[r1].kind = "raised"
    /\ pc[r2] = "done" /\ resp[r2].kind = "ok"
    /\ \A s \in Scopes : scopeCtx[s] = Missing

\* C4: the quality_score returned by /quality, for every valid FeatureSet, and
\* the one returned by /quality-from-csv, for every number the collaborator
\* supplies (below 0, above 1, or no quality_score key at all), lies in [0, 1].
C4_ScoreInUnitInterval ==
  \A r \in Reqs :
    (Returned(r) /\ IsScoringEndpoint(r) /\ resp[r].kind = "ok") =>
      /\ resp[r].body.quality_score >= 0
      /\ resp[r].body.quality_score <= 1000
      /\ req[r].endpoint = ENDPOINT_QUALITY => ValidFeatures(req[r].features)

\* /quality has answered a FeatureSet whose penalties sum to more than 1
C4_Witness ==
  \E r \in Reqs :
    /\ Returned(r) /\ req[r].endpoint = ENDPOINT_QUALITY /\ resp[r].kind = "ok"
    /\ req[r].features.max_missing_share = 1000
    /\ req[r].features.n_rows < 1000
    /\ resp[r].body.quality_score = 0

\* C5: in /quality and /quality-from-csv, ok_for_model is true exactly when
\* the returned score is >= 0.7 (0.7 itself passes), and the message is the
\* endpoint's "ok" string exactly when ok_for_model is true.
C5_VerdictAtThreshold ==
  \A r \in Reqs :
    (Returned(r) /\ IsScoringEndpoint(r) /\ resp[r].kind = "ok") =>
      /\ resp[r].body.ok_for_model = (resp[r].body.quality_score >= 700)
      /\ resp[r].body.ok_for_model =
           (resp[r].body.message =
              (IF req[r].endpoint = ENDPOINT_QUALITY THEN MSG_QUALITY_OK ELSE MSG_CSV_OK))

\* a returned score of exactly 0.7, accepted
C5_Witness ==
  \E r \in Reqs :
    /\ Returned(r) /\ IsScoringEndpoint(r) /\ resp[r].kind = "ok"
    /\ resp[r].body.quality_score = 700
    /\ resp[r].body.ok_for_model

\* C6: the score of /quality is monotonically non-increasing in
\* max_missing_share: a FeatureSet that agrees with the answered one on the
\* other four fields and has at least its missing share scores no higher.
C6_MonotoneInMissingShare ==
  \A r \in Reqs :
    (Returned(r) /\ req[r].endpoint = ENDPOINT_QUALITY /\ resp[r].kind = "ok") =>
      \A g \in AllFeatureSets :
        ( /\ g.n_rows = req[r].features.n_rows
          /\ g.n_cols = req[r].features.n_cols
          /\ g.numeric_cols = req[r].features.numeric_cols
          /\ g.categorical_cols = req[r].features.categorical_cols
          /\ g.max_missing_share >= req[r].features.max_missing_share )
        => QualityScore(g) <= resp[r].body.quality_score

\* an answered FeatureSet that a larger missing share scores strictly lower
C6_Witness ==
  \E r \in Reqs :
    /\ Returned(r) /\ req[r].endpoint = ENDPOINT_QUALITY /\ resp[r].kind = "ok"
    /\ \E g \in AllFeatureSets :
         /\ g.n_rows = req[r].features.n_rows
         /\ g.n_cols = req[r].features.n_cols
         /\ g.numeric_cols = req[r].features.numeric_cols
         /\ g.categorical_cols = req[r].features.categorical_cols
         /\ g.max_missing_share > req[r].features.max_missing_share
         /\ QualityScore(g) < resp[r].body.quality_score

\* C7: in both CSV entry points a request whose content type is not one of
\* text/csv, application/vnd.ms-excel, application/octet-stream fails with the
\* content-type client error (HTTP 400), and neither the parser nor the
\* analysis collaborator was called for it.
C7_BadContentTypeNeverParsed ==
  \A r \in Reqs :
    ( /\ Returned(r) /\ IsCsvEndpoint(r)
      /\ req[r].content_type
           \notin {"text/csv", "application/vnd.ms-excel", "application/octet-stream"} )
    => /\ resp[r].kind = "http_error"
       /\ resp[r].status_code = 400
       /\ resp[r].detail = DETAIL_CONTENT_TYPE
       /\ calls[r] = << >>

\* a well-formed, non-empty CSV sent as application/json has been refused
C7_Witness ==
  \E r \in Reqs :
    /\ Returned(r) /\ IsCsvEndpoint(r)
    /\ req[r].content_type = "application/json"
    /\ req[r].content = Table(3, 2)
    /\ resp[r].detail = DETAIL_CONTENT_TYPE

\* C8: in both CSV entry points, when the parse succeeds and the table has no
\* rows, the request fails with the empty-dataset client error (HTTP 400)
\* whatever the number of columns, and the collaborator is not called.
C8_ZeroRowsIsEmptyDataset ==
  \A r \in Reqs :
    ( /\ Returned(r) /\ IsCsvEndpoint(r)
      /\ Len(calls[r]) > 0 /\ calls[r][1] = "read_csv"
      /\ req[r].content.kind = "table" /\ req[r].content.rows = 0 )
    => /\ resp[r].kind = "http_error"
       /\ resp[r].status_code = 400
       /\ resp[r].detail = DETAIL_EMPTY
       /\ calls[r] = <<"read_csv">>

\* a parsed table of no rows and three columns has been refused
C8_Witness ==
  \E r \in Reqs :
    /\ Returned(r) /\ IsCsvEndpoint(r)
    /\ calls[r] = <<"read_csv">>
    /\ req[r].content = Table(0, 3)
    /\ resp[r].detail = DETAIL_EMPTY

\* C9: on success, the flags of /quality-flags-from-csv are exactly the
\* boolean-valued entries of the collaborator's flags_all, key by key and
\* value by value: no quality_score key, no other non-boolean entry.
C9_FlagsAreTheBooleanEntries ==
  \A r \in Reqs :
    (Returned(r) /\ req[r].endpoint = ENDPOINT_FLAGS /\ resp[r].kind = "ok") =>
      LET flags == resp[r].body.flags
          flags_all == collab[r].flags_all
      IN /\ DOMAIN flags = {k \in DOMAIN flags_all : flags_all[k].tag = "bool"}
         /\ \A k \in DOMAIN flags : flags[k] = flags_all[k].b
         /\ "quality_score" \notin DOMAIN flags

\* a success on a mapping that holds a numeric quality_score, a true boolean
\* and a string
C9_Witness ==
  \E r \in Reqs :
    /\ Returned(r) /\ req[r].endpoint = ENDPOINT_FLAGS /\ resp[r].kind = "ok"
    /\ DOMAIN collab[r].flags_all = {"quality_score", "too_few_rows", "note"}
    /\ collab[r].flags_all["quality_score"].tag = "num"
    /\ collab[r].flags_all["too_few_rows"] = BoolVal(TRUE)
    /\ collab[r].flags_all["note"].tag = "str"
    /\ DOMAIN resp[r].body.flags = {"too_few_rows"}

\* C10: in both CSV entry points, once the collaborator has returned, the
\* request succeeds and the n_rows, n_cols of its success record (and of
\* dataset_shape in /quality-from-csv) are those of the summary when the
\* summary has them, and those of the parsed table when it has not.
C10_ShapeFromSummaryOrTable ==
  \A r \in Reqs :
    ( /\ Returned(r) /\ IsCsvEndpoint(r)
      /\ calls[r] = CollaboratorCalls /\ ~collab[r].raises )
    => LET summary == collab[r].summary
           expected ==
             IF summary.n_rows # <<>> /\ summary.n_cols # <<>>
             THEN [n_rows |-> summary.n_rows[1], n_cols |-> summary.n_cols[1]]
             ELSE [n_rows |-> req[r].content.rows, n_cols |-> req[r].content.cols]
       IN /\ resp[r].kind = "ok"
          /\ Len(emitted[r]) = 1
          /\ emitted[r][1].status = "success"
          /\ emitted[r][1].n_rows = expected.n_rows
          /\ emitted[r][1].n_cols = expected.n_cols
          /\ req[r].endpoint = ENDPOINT_CSV => resp[r].body.dataset_shape = expected

====
